---- MODULE Spec2Model ----
(***************************************************************************)
(* Financial integrity core of Kosh-AI: the double-entry ledger            *)
(* (backend/services/ledger.py), the order orchestrator                    *)
(* (backend/services/transaction_engine.py), the risk gate                 *)
(* (backend/services/risk_engine.py) and the one caller of the             *)
(* orchestrator (backend/services/action_engine.py).                       *)
(*                                                                         *)
(* Every request runs in its own SQLAlchemy session against one PostgreSQL *)
(* database (READ COMMITTED).  A session keeps an identity map: a row that *)
(* was loaded once keeps its loaded attributes when a later SELECT         *)
(* (also SELECT ... FOR UPDATE) returns the same row.  Writes of a session *)
(* become visible to the others at its commit.                             *)
(*                                                                         *)
(* Money is counted in units of 1/10000 (Numeric(20, 4)).                  *)
(***************************************************************************)
EXTENDS Integers, Sequences, FiniteSets, TLC

\* ---------------------------------------------------------------- bounds
MaxOps == 2
MaxFreeze == 1

\* ------------------------------------------------------- program constants
Scale == 10000
MAX_AUTO_APPROVE_AMOUNT == 50000 * Scale
CRITICAL_RISK_SCORE_THRESHOLD == 80
VELOCITY_LIMIT_1H == 10
LowReliability == 300
FeePercent == 2

\* ----------------------------------------------------------------- universe
Sessions == {"s1", "s2"}
Orders == {"o1", "o2"}
Accounts == {"W", "H", "P", "R", "V", "C"}
NoScore == -1
\* what the risk gate reads for a hold: orders of the merchant in the last hour,
\* and the reliability score of the supplier in thousandths (NoScore: no Score
\* row); the direct evaluations below cover the reliability rule
RiskInputs == { <<0, NoScore>>, <<11, NoScore>> }
\* the orders the collaborators hand over: o1 and o2 of one merchant and supplier
InitOrders ==
  { [o1 |-> [status |-> "pending", total_amount |-> 500 * Scale],
     o2 |-> [status |-> st, total_amount |-> tot]] :
       st \in {"draft", "pending"}, tot \in {1000 * Scale, 60000 * Scale} }

ORDER_STATUS_FUNDS_HELD == "funds_held"
ORDER_STATUS_SHIPPED == "shipped"
ORDER_STATUS_COMPLETED == "completed"
ORDER_STATUS_CANCELLED == "cancelled"

\* account_type of the accounts: the four the orchestrator uses (merchant wallet,
\* system hold, supplier payable, system revenue) and two that only callers of
\* post_transaction use (a receivable and a credit line)
account_type(a) ==
  CASE a = "W" -> "WALLET"
    [] a = "H" -> "HOLD"
    [] a = "P" -> "PAYABLE"
    [] a = "R" -> "REVENUE"
    [] a = "V" -> "RECEIVABLE"
    [] a = "C" -> "CREDIT"

VARIABLES
  ledger_accounts,      \* committed rows: [exists, balance, is_frozen]
  ledger_transactions,  \* committed transaction rows (idempotency keys), in commit order
  ledger_entries,       \* committed entry rows, in commit order
  orders,               \* committed order rows: [status, total_amount]
  risk_decision_logs,   \* committed audit rows
  accId,                \* uuid4 primary keys of the account rows, as ranks
  sess,                 \* per session: position and unit of work
  opsLeft,              \* requests still to be issued
  freezeLeft,           \* account freezes still to be issued
  trail,                \* history: the last two requests that ended
  accepted              \* history: keys whose post_transaction returned and was committed

vars == <<ledger_accounts, ledger_transactions, ledger_entries, orders,
          risk_decision_logs, accId, sess, opsLeft, freezeLeft, trail, accepted>>

db == <<ledger_accounts, ledger_transactions, ledger_entries, orders,
        risk_decision_logs, accId>>

\* ------------------------------------------------------------------ helpers
NoRow == [exists |-> FALSE, balance |-> 0, is_frozen |-> FALSE]
NotLoaded == [loaded |-> FALSE, balance |-> 0, is_frozen |-> FALSE]
NoRequest == [idempotency_key |-> <<"none", "none">>, entries |-> <<>>]

EntryRequest(a, amt, dir) == [account_id |-> a, amount |-> amt, direction |-> dir]

RECURSIVE SumAmounts(_, _)
\* sum(e.amount for e in entries if e.direction == dir)
SumAmounts(es, dir) ==
  IF es = <<>> THEN 0
  ELSE (IF Head(es).direction = dir THEN Head(es).amount ELSE 0)
       + SumAmounts(Tail(es), dir)

RECURSIVE InsertSorted(_, _, _)
InsertSorted(e, es, rank) ==
  IF es = <<>> THEN <<e>>
  ELSE IF rank[e.account_id] < rank[Head(es).account_id]
       THEN <<e>> \o es
       ELSE <<Head(es)>> \o InsertSorted(e, Tail(es), rank)

SortedEntries_RequestOrder(es, rank) == es

RECURSIVE SortedEntries(_, _)
\* sorted(request.entries, key=lambda x: x.account_id), a stable sort
SortedEntries(es, rank) ==
  IF es = <<>> THEN <<>>
  ELSE InsertSorted(es[Len(es)], SortedEntries(SubSeq(es, 1, Len(es) - 1), rank), rank)

balance_change_HoldAsAsset(t, dir, delta) ==
  IF t \in {"WALLET", "RECEIVABLE", "EXPENSE", "HOLD"}
  THEN (IF dir = "DEBIT" THEN delta ELSE -delta)
  ELSE (IF dir = "CREDIT" THEN delta ELSE -delta)

\* the signed change one entry makes to the balance of an account of type t
balance_change(t, dir, delta) ==
  IF t \in {"WALLET", "RECEIVABLE", "EXPENSE"}
  THEN (IF dir = "DEBIT" THEN delta ELSE -delta)
  ELSE (IF dir = "CREDIT" THEN delta ELSE -delta)

\* ---------------------------------------------------------------- risk gate
\* the reliability the gate reads: that of the Score row of the supplier, and
\* none for a call that names no supplier
SupplierScore(supplier, reliability) == IF supplier THEN reliability ELSE NoScore

RiskScore_NotStrict(amount, velocity, reliability) ==
  10 + (IF amount >= MAX_AUTO_APPROVE_AMOUNT THEN 40 ELSE 0)
     + (IF velocity >= VELOCITY_LIMIT_1H THEN 50 ELSE 0)
     + (IF reliability # NoScore /\ reliability <= LowReliability THEN 30 ELSE 0)

RiskScore(amount, velocity, reliability) ==
  10 + (IF amount > MAX_AUTO_APPROVE_AMOUNT THEN 40 ELSE 0)
     + (IF velocity > VELOCITY_LIMIT_1H THEN 50 ELSE 0)
     + (IF reliability # NoScore /\ reliability < LowReliability THEN 30 ELSE 0)

\* the reasons list: one reason for each rule that fired, in the order of the rules
RiskReasons(amount, velocity, reliability) ==
  (IF amount > MAX_AUTO_APPROVE_AMOUNT THEN <<"High Value Transaction">> ELSE <<>>)
  \o (IF velocity > VELOCITY_LIMIT_1H THEN <<"High Velocity">> ELSE <<>>)
  \o (IF reliability # NoScore /\ reliability < LowReliability
      THEN <<"Low Supplier Reliability">> ELSE <<>>)

RiskDecisionOf_BlockAbove(amount, score) ==
  IF score > CRITICAL_RISK_SCORE_THRESHOLD THEN "BLOCK"
  ELSE IF score >= 50 \/ amount > MAX_AUTO_APPROVE_AMOUNT THEN "REVIEW"
  ELSE "APPROVE"

RiskDecisionOf(amount, score) ==
  IF score >= CRITICAL_RISK_SCORE_THRESHOLD THEN "BLOCK"
  ELSE IF score >= 50 \/ amount > MAX_AUTO_APPROVE_AMOUNT THEN "REVIEW"
  ELSE "APPROVE"

\* -------------------------------------------------------------------- keys
HoldKey(o) == <<"hold_order", o>>
CaptureKey(o) == <<"capture_order", o>>
VoidKey(o) == <<"void_order", o>>

\* ---------------------------------------------------------------- sessions
IdleSession ==
  [pc |-> "idle", op |-> "none", order |-> "none",
   seen |-> "none", decision |-> "none", score |-> 0, reasons |-> <<>>,
   need |-> <<>>, req |-> NoRequest, sorted |-> <<>>, i |-> 1,
   cache |-> [a \in Accounts |-> NotLoaded],
   created |-> {}, locks |-> {}, dirty |-> {}, txIns |-> FALSE,
   pend |-> <<>>, newStatus |-> "none", logs |-> <<>>,
   err |-> "none", msg |-> "none", aborted |-> FALSE]

Balances(rows) == [a \in Accounts |-> rows[a].balance]

\* history of the last two requests that ended, with the committed state before
NoTrail == [op |-> "none", order |-> "none", committed |-> FALSE, pc |-> "none",
            err |-> "none", posted |-> FALSE, seen |-> "none",
            before |-> [a \in Accounts |-> 0], txsBefore |-> 0, entriesBefore |-> 0,
            statusBefore |-> "none",
            prevOp |-> "none", prevOrder |-> "none", prevPc |-> "none",
            prevPosted |-> FALSE, prevBefore |-> [a \in Accounts |-> 0]]

DepositKey == <<"key", "deposit">>
DepositAmount == 1000 * Scale

\* the rows a committed deposit (DEBIT wallet, CREDIT revenue) leaves behind
DepositEntries(rank) ==
  LET es == SortedEntries(<<EntryRequest("W", DepositAmount, "DEBIT"),
                            EntryRequest("R", DepositAmount, "CREDIT")>>, rank)
  IN [k \in 1..2 |-> [transaction_id |-> DepositKey, account_id |-> es[k].account_id,
                       direction |-> es[k].direction, amount |-> es[k].amount,
                       balance_after |-> DepositAmount]]

Ranks ==
  { [W |-> 1, H |-> 2, P |-> 3, R |-> 4, V |-> 5, C |-> 6],
    [W |-> 6, H |-> 5, P |-> 4, R |-> 3, V |-> 2, C |-> 1] }

\* the state after construction, with an order table out of the set os
InitWith(os) ==
  /\ accId \in Ranks
  /\ \E funded \in BOOLEAN :
       IF funded
       THEN /\ ledger_accounts =
                 [a \in Accounts |->
                    IF a \in {"W", "R"}
                    THEN [exists |-> TRUE, balance |-> DepositAmount, is_frozen |-> FALSE]
                    ELSE NoRow]
            /\ ledger_transactions = <<DepositKey>>
            /\ ledger_entries = DepositEntries(accId)
       ELSE /\ ledger_accounts = [a \in Accounts |-> NoRow]
            /\ ledger_transactions = <<>>
            /\ ledger_entries = <<>>
  /\ orders \in os
  /\ risk_decision_logs = <<>>
  /\ sess = [s \in Sessions |-> IdleSession]
  /\ opsLeft = MaxOps
  /\ freezeLeft = MaxFreeze
  /\ trail = NoTrail
  /\ accepted = IF ledger_transactions = <<>> THEN {} ELSE {DepositKey}

Init == InitWith(InitOrders)

\* a request gets a fresh session from async_session_factory; the sessions are
\* interchangeable, so the free one that is named first is taken
CanBegin(s) ==
  /\ opsLeft > 0
  /\ sess[s].pc = "idle"
  /\ s = CHOOSE t \in Sessions : sess[t].pc = "idle"

\* ------------------------------------------------------ TransactionEngine
\* place_order_hold up to the first get_or_create_account: fetch the order,
\* check its state, ask the risk gate (which adds its audit row to the session)
HoldGate_BlockOnly(decision) == decision = "BLOCK"

\* the decisions on which place_order_hold raises
HoldGate(decision) == decision \in {"BLOCK", "REVIEW"}

AlreadyHeld_Never(status) == FALSE

\* the one status other than pending on which place_order_hold returns a message
AlreadyHeld(status) == status = ORDER_STATUS_FUNDS_HELD

BeginHold(s, o, velocity, reliability) ==
  /\ CanBegin(s)
  /\ opsLeft' = opsLeft - 1
  /\ LET status == orders[o].status
         amount == orders[o].total_amount
         score == RiskScore(amount, velocity, reliability)
         decision == RiskDecisionOf(amount, score)
         reasons == RiskReasons(amount, velocity, reliability)
         base == [IdleSession EXCEPT !.op = "hold", !.order = o, !.seen = status]
         log == [score |-> score, decision |-> decision, amount |-> amount,
                 velocity_1h |-> velocity, supplier_score |-> reliability]
     IN sess' = [sess EXCEPT ![s] =
          IF status # "pending"
          THEN IF AlreadyHeld(status)
               THEN [base EXCEPT !.pc = "ok", !.msg = "Funds already held."]
               ELSE [base EXCEPT !.pc = "failed", !.err = "invalid_state"]
          ELSE IF HoldGate(decision)
               THEN [base EXCEPT !.pc = "failed", !.err = "not_authorized",
                                 !.decision = decision, !.score = score,
                                 !.reasons = reasons, !.logs = <<log>>]
               ELSE [base EXCEPT !.pc = "goc", !.need = <<"W", "H">>,
                                 !.decision = decision, !.score = score,
                                 !.reasons = reasons, !.logs = <<log>>]]
  /\ UNCHANGED <<db, freezeLeft, trail, accepted>>

\* ------------------------------------------------------------- RiskEngine
\* the inputs of a direct evaluation: amounts around the ceiling, order counts
\* around the velocity limit, and the supplier with its reliability
RiskAmounts == {1000 * Scale, 50000 * Scale, 60000 * Scale}
RiskVelocities == {0, 10, 11}
RiskSuppliers == { <<FALSE, 200>>, <<TRUE, NoScore>>, <<TRUE, 200>>, <<TRUE, 300>> }

\* evaluate_transaction called by itself in a session: the decision is returned
\* and the audit row is added to the session, whose owner then commits
EvaluateTransaction(s, amount, velocity, supplier, reliability) ==
  /\ CanBegin(s)
  /\ opsLeft' = opsLeft - 1
  /\ LET s_score == SupplierScore(supplier, reliability)
         score == RiskScore(amount, velocity, s_score)
         decision == RiskDecisionOf(amount, score)
         log == [score |-> score, decision |-> decision, amount |-> amount,
                 velocity_1h |-> velocity, supplier_score |-> s_score]
     IN sess' = [sess EXCEPT ![s] =
          [IdleSession EXCEPT !.op = "evaluate", !.pc = "ok",
                              !.decision = decision, !.score = score,
                              !.reasons = RiskReasons(amount, velocity, s_score),
                              !.logs = <<log>>]]
  /\ UNCHANGED <<db, freezeLeft, trail, accepted>>

\* the state check of capture_order_payment: which statuses are refused
CaptureRefuses(status) == FALSE

BeginCapture(s, o) ==
  /\ CanBegin(s)
  /\ opsLeft' = opsLeft - 1
  /\ LET status == orders[o].status
         base == [IdleSession EXCEPT !.op = "capture", !.order = o, !.seen = status]
     IN sess' = [sess EXCEPT ![s] =
          IF CaptureRefuses(status)
          THEN [base EXCEPT !.pc = "failed", !.err = "invalid_state"]
          ELSE [base EXCEPT !.pc = "goc", !.need = <<"H", "P", "R">>]]
  /\ UNCHANGED <<db, freezeLeft, trail, accepted>>

BeginVoid(s, o) ==
  /\ CanBegin(s)
  /\ opsLeft' = opsLeft - 1
  /\ LET status == orders[o].status
         base == [IdleSession EXCEPT !.op = "void", !.order = o, !.seen = status]
     IN sess' = [sess EXCEPT ![s] =
          IF status # ORDER_STATUS_FUNDS_HELD
          THEN [base EXCEPT !.pc = "failed", !.err = "invalid_state"]
          ELSE [base EXCEPT !.pc = "goc", !.need = <<"W", "H">>]]
  /\ UNCHANGED <<db, freezeLeft, trail, accepted>>

\* ------------------------------------------------------------ direct posts
\* requests a caller hands to post_transaction itself (deposits, tests)
Requests ==
  { [idempotency_key |-> <<"key", "k1">>,
     entries |-> <<EntryRequest("W", 100 * Scale, "DEBIT"), EntryRequest("R", 100 * Scale, "CREDIT")>>],
    [idempotency_key |-> <<"key", "k2">>,
     entries |-> <<EntryRequest("R", 50 * Scale, "CREDIT"), EntryRequest("W", 50 * Scale, "DEBIT")>>],
    [idempotency_key |-> <<"key", "k2">>,
     entries |-> <<EntryRequest("W", 100 * Scale, "DEBIT"), EntryRequest("R", 50 * Scale, "CREDIT")>>],
    [idempotency_key |-> <<"key", "k2">>,
     entries |-> <<EntryRequest("W", 0, "DEBIT"), EntryRequest("R", 0, "CREDIT")>>] }

\* the accounts a request names, in the order in which its caller obtains them
RequestAccounts(r) ==
  SelectSeq(<<"W", "H", "P", "R", "V", "C">>,
            LAMBDA a : \E k \in 1..Len(r.entries) : r.entries[k].account_id = a)

\* a caller of post_transaction: it obtains the accounts of the request through
\* get_or_create_account in its session first, as the tests do
BeginPost(s, r) ==
  /\ CanBegin(s)
  /\ opsLeft' = opsLeft - 1
  /\ sess' = [sess EXCEPT ![s] =
       [IdleSession EXCEPT !.pc = "goc", !.op = "post", !.req = r,
                           !.need = RequestAccounts(r)]]
  /\ UNCHANGED <<db, freezeLeft, trail, accepted>>

\* ------------------------------------------------------------ LedgerService
\* get_or_create_account, the SELECT: an identity-mapped row keeps its attributes
GocSelect(s) ==
  /\ sess[s].pc = "goc"
  /\ sess[s].need # <<>>
  /\ LET a == Head(sess[s].need)
         row == ledger_accounts[a]
     IN sess' = [sess EXCEPT ![s] =
          IF sess[s].cache[a].loaded
          THEN [@ EXCEPT !.need = Tail(@)]
          ELSE IF row.exists
               THEN [@ EXCEPT !.need = Tail(@),
                              !.cache[a] = [loaded |-> TRUE, balance |-> row.balance,
                                            is_frozen |-> row.is_frozen]]
               ELSE [@ EXCEPT !.pc = "goc_insert"]]
  /\ UNCHANGED <<db, opsLeft, freezeLeft, trail, accepted>>

\* what a failed flush leaves of the session: its transaction is rolled back
AbortedSession(ss, e) ==
  [ss EXCEPT !.pc = "failed", !.err = e, !.aborted = TRUE, !.created = {},
             !.locks = {}, !.dirty = {}, !.txIns = FALSE, !.pend = <<>>,
             !.newStatus = "none", !.logs = <<>>]

\* get_or_create_account, db.add(account) and flush: the INSERT waits for an
\* uncommitted row of the same identity and fails on a committed one
GocInsert(s) ==
  /\ sess[s].pc = "goc_insert"
  /\ LET a == Head(sess[s].need)
     IN /\ \A t \in Sessions \ {s} : a \notin sess[t].created
        /\ sess' = [sess EXCEPT ![s] =
             IF ledger_accounts[a].exists
             THEN AbortedSession(@, "integrity_account")
             ELSE [@ EXCEPT !.pc = "goc", !.need = Tail(@), !.created = @ \cup {a},
                            !.cache[a] = [loaded |-> TRUE, balance |-> 0,
                                          is_frozen |-> FALSE]]]
  /\ UNCHANGED <<db, opsLeft, freezeLeft, trail, accepted>>

\* the audit row that evaluate_transaction added is written by the autoflush of
\* the first SELECT of get_or_create_account; the storage layer may reject it,
\* and the failed flush ends place_order_hold with the error of the INSERT
AuditWriteFails(s) ==
  /\ sess[s].pc = "goc"
  /\ sess[s].op = "hold"
  /\ sess[s].logs # <<>>
  /\ sess[s].need = <<"W", "H">>
  /\ sess' = [sess EXCEPT ![s] = AbortedSession(@, "audit_write")]
  /\ UNCHANGED <<db, opsLeft, freezeLeft, trail, accepted>>

platform_fee_Tenth(amount) == (amount * FeePercent) \div 1000

platform_fee_Rounded(amount) == ((amount * FeePercent) \div (100 * 100)) * 100

\* platform_fee = amount * Decimal("0.02"), exact in units of 1/10000 for a
\* total_amount of two decimal places
platform_fee(amount) == (amount * FeePercent) \div 100

BuildRequest_VoidKeepsFee(ss) ==
  LET o == ss.order
      amount == orders[o].total_amount
  IN CASE ss.op = "hold" ->
            [idempotency_key |-> HoldKey(o),
             entries |-> <<EntryRequest("W", amount, "DEBIT"),
                           EntryRequest("H", amount, "CREDIT")>>]
       [] ss.op = "capture" ->
            [idempotency_key |-> CaptureKey(o),
             entries |-> <<EntryRequest("H", amount, "DEBIT"),
                           EntryRequest("P", amount - platform_fee(amount), "CREDIT"),
                           EntryRequest("R", platform_fee(amount), "CREDIT")>>]
       [] ss.op = "void" ->
            [idempotency_key |-> VoidKey(o),
             entries |-> <<EntryRequest("H", amount - platform_fee(amount), "DEBIT"),
                           EntryRequest("W", amount - platform_fee(amount), "CREDIT")>>]
       [] OTHER -> ss.req

\* the TransactionRequest each operation builds
BuildRequest(ss) ==
  LET o == ss.order
      amount == orders[o].total_amount
  IN CASE ss.op = "hold" ->
            [idempotency_key |-> HoldKey(o),
             entries |-> <<EntryRequest("W", amount, "DEBIT"),
                           EntryRequest("H", amount, "CREDIT")>>]
       [] ss.op = "capture" ->
            [idempotency_key |-> CaptureKey(o),
             entries |-> <<EntryRequest("H", amount, "DEBIT"),
                           EntryRequest("P", amount - platform_fee(amount), "CREDIT"),
                           EntryRequest("R", platform_fee(amount), "CREDIT")>>]
       [] ss.op = "void" ->
            [idempotency_key |-> VoidKey(o),
             entries |-> <<EntryRequest("H", amount, "DEBIT"),
                           EntryRequest("W", amount, "CREDIT")>>]
       [] OTHER -> ss.req

InsufficientFunds_NotAbove(ss) ==
  ss.op = "hold" /\ ss.cache["W"].balance <= orders[ss.order].total_amount

\* the manual balance check of place_order_hold
InsufficientFunds(ss) ==
  ss.op = "hold" /\ ss.cache["W"].balance < orders[ss.order].total_amount

KeyExists(key) == \E k \in 1..Len(ledger_transactions) : ledger_transactions[k] = key

ValidationError_NoBalance(r) ==
  LET total_debit == SumAmounts(r.entries, "DEBIT")
  IN IF KeyExists(r.idempotency_key) THEN "replay"
     ELSE IF total_debit <= 0 THEN "not_positive"
     ELSE "none"

ValidationError_NoReplay(r) ==
  LET total_debit == SumAmounts(r.entries, "DEBIT")
      total_credit == SumAmounts(r.entries, "CREDIT")
  IN IF total_debit # total_credit THEN "unbalanced"
     ELSE IF total_debit <= 0 THEN "not_positive"
     ELSE "none"

\* post_transaction steps 1 and 2: "none" when the request passes
ValidationError(r) ==
  LET total_debit == SumAmounts(r.entries, "DEBIT")
      total_credit == SumAmounts(r.entries, "CREDIT")
  IN IF KeyExists(r.idempotency_key) THEN "replay"
     ELSE IF total_debit # total_credit THEN "unbalanced"
     ELSE IF total_debit <= 0 THEN "not_positive"
     ELSE "none"

\* the balance check of the hold, then post_transaction up to its validation
StartPost(s) ==
  /\ sess[s].pc = "goc"
  /\ sess[s].need = <<>>
  /\ LET r == BuildRequest(sess[s])
         e == ValidationError(r)
     IN sess' = [sess EXCEPT ![s] =
          IF InsufficientFunds(sess[s])
          THEN [@ EXCEPT !.pc = "failed", !.err = "insufficient_funds"]
          ELSE IF e # "none"
               THEN [@ EXCEPT !.pc = "failed", !.err = e, !.req = r]
               ELSE [@ EXCEPT !.pc = "insert", !.req = r,
                              !.sorted = SortedEntries(r.entries, accId)]]
  /\ UNCHANGED <<db, opsLeft, freezeLeft, trail, accepted>>

\* the unique index on idempotency_key: is the key taken by a committed row
KeyConflict(key) == KeyExists(key)

\* post_transaction step 3, db.add(transaction) and flush: the INSERT waits for
\* an uncommitted row with the same key and fails on a committed one
InsertTx(s) ==
  /\ sess[s].pc = "insert"
  /\ LET key == sess[s].req.idempotency_key
     IN /\ \A t \in Sessions \ {s} :
             ~(sess[t].txIns /\ sess[t].req.idempotency_key = key)
        /\ sess' = [sess EXCEPT ![s] =
             IF KeyConflict(key)
             THEN AbortedSession(@, "integrity_key")
             ELSE [@ EXCEPT !.pc = "lock", !.txIns = TRUE, !.i = 1]]
  /\ UNCHANGED <<db, opsLeft, freezeLeft, trail, accepted>>

\* the status the orchestrator gives the order once post_transaction returned
StatusAfter(op) ==
  CASE op = "hold" -> ORDER_STATUS_FUNDS_HELD
    [] op = "capture" -> ORDER_STATUS_COMPLETED
    [] op = "void" -> ORDER_STATUS_CANCELLED
    [] OTHER -> "none"

MessageAfter(op) ==
  CASE op = "hold" -> "Funds reserved successfully."
    [] op = "capture" -> "Payment captured."
    [] op = "void" -> "Transaction voided, funds refunded."
    [] OTHER -> "none"

EntryRejected_AmountOnly(e) == e.amount <= 0

\* the CHECK constraints of ledger_entries: an INSERT of a row with amount <= 0
\* or with a direction other than DEBIT and CREDIT fails
EntryRejected(e) == e.amount <= 0 \/ e.direction \notin {"DEBIT", "CREDIT"}

\* a flush of the session writes the entries it added; does an INSERT fail
PendingRejected(ss) == \E k \in 1..Len(ss.pend) : EntryRejected(ss.pend[k])

\* the row the SELECT ... FOR UPDATE hands to the session: the identity-mapped
\* object when the session loaded the row before, the committed row otherwise
LockedRow(ss, a) ==
  IF ss.cache[a].loaded
  THEN ss.cache[a]
  ELSE [loaded |-> TRUE, balance |-> ledger_accounts[a].balance,
        is_frozen |-> ledger_accounts[a].is_frozen]

\* post_transaction step 4, one turn of the loop: the autoflush of the SELECT
\* writes the entries added so far (a rejected INSERT rolls the session back);
\* then lock the account row, refuse a frozen account, change the balance, add
\* the entry; after the last entry the orchestrator sets the order status
LockApply(s) ==
  /\ sess[s].pc = "lock"
  /\ LET e == sess[s].sorted[sess[s].i]
         a == e.account_id
         account == LockedRow(sess[s], a)
         balance == account.balance + balance_change(account_type(a), e.direction, e.amount)
         entry == [transaction_id |-> sess[s].req.idempotency_key, account_id |-> a,
                   direction |-> e.direction, amount |-> e.amount,
                   balance_after |-> balance]
         last == sess[s].i = Len(sess[s].sorted)
     IN /\ PendingRejected(sess[s]) \/ \A t \in Sessions \ {s} : a \notin sess[t].locks
        /\ sess' = [sess EXCEPT ![s] =
             IF PendingRejected(sess[s])
             THEN AbortedSession(@, "integrity_entry")
             ELSE IF account.is_frozen
             THEN [@ EXCEPT !.pc = "failed", !.err = "frozen", !.locks = @ \cup {a},
                            !.cache[a] = account]
             ELSE [@ EXCEPT !.pc = IF last THEN "ok" ELSE "lock",
                            !.i = @ + 1,
                            !.locks = @ \cup {a},
                            !.dirty = @ \cup {a},
                            !.cache[a] = [account EXCEPT !.balance = balance],
                            !.pend = Append(@, entry),
                            !.newStatus = IF last THEN StatusAfter(sess[s].op) ELSE "none",
                            !.msg = IF last THEN MessageAfter(sess[s].op) ELSE "none"]]
  /\ UNCHANGED <<db, opsLeft, freezeLeft, trail, accepted>>

\* ------------------------------------------------------------------ callers
\* may the caller commit the session once the operation returned or raised:
\* every caller commits a success; handle_response, which calls
\* place_order_hold, catches the exception of a failure and commits as well,
\* unless a failed flush has already rolled the transaction back
CallerCommits(ss) ==
  \/ ss.pc = "ok"
  \/ ss.pc = "failed" /\ ss.op = "hold" /\ ~ss.aborted

TrailAfter(ss, committed) ==
  [op |-> ss.op, order |-> ss.order, committed |-> committed, pc |-> ss.pc,
   err |-> ss.err, posted |-> ss.txIns, seen |-> ss.seen,
   before |-> Balances(ledger_accounts), txsBefore |-> Len(ledger_transactions),
   entriesBefore |-> Len(ledger_entries),
   statusBefore |-> IF ss.order \in Orders THEN orders[ss.order].status ELSE "none",
   prevOp |-> trail.op, prevOrder |-> trail.order, prevPc |-> trail.pc,
   prevPosted |-> trail.posted, prevBefore |-> trail.before]

\* the entries of the ledger once the session ss has committed
EntriesAfterCommit_VoidErasesHold(ss) ==
  IF ss.op = "void" /\ ss.pc = "ok"
  THEN SelectSeq(ledger_entries, LAMBDA e : e.transaction_id # HoldKey(ss.order)) \o ss.pend
  ELSE ledger_entries \o ss.pend

EntriesAfterCommit(ss) == ledger_entries \o ss.pend

\* db.commit(): the flush writes what the session still holds, and the unit of
\* work becomes the committed state; when the flush fails on an entry the
\* transaction is rolled back and the commit raises
Commit(s) ==
  /\ sess[s].pc \in {"ok", "failed"}
  /\ CallerCommits(sess[s])
  /\ LET ss == sess[s]
     IN IF PendingRejected(ss)
        THEN /\ trail' = TrailAfter(AbortedSession(ss, "integrity_entry"), FALSE)
             /\ UNCHANGED <<ledger_accounts, ledger_transactions, ledger_entries,
                            orders, risk_decision_logs, accepted>>
        ELSE /\ ledger_accounts' =
                  [a \in Accounts |->
                     IF a \in ss.created
                     THEN [exists |-> TRUE, balance |-> ss.cache[a].balance, is_frozen |-> FALSE]
                     ELSE IF a \in ss.dirty
                          THEN [ledger_accounts[a] EXCEPT !.balance = ss.cache[a].balance]
                          ELSE ledger_accounts[a]]
             /\ ledger_transactions' =
                  IF ss.txIns THEN Append(ledger_transactions, ss.req.idempotency_key)
                  ELSE ledger_transactions
             /\ ledger_entries' = EntriesAfterCommit(ss)
             /\ orders' = IF ss.newStatus # "none"
                          THEN [orders EXCEPT ![ss.order].status = ss.newStatus]
                          ELSE orders
             /\ risk_decision_logs' = risk_decision_logs \o ss.logs
             /\ trail' = TrailAfter(ss, TRUE)
             /\ accepted' = IF ss.pc = "ok" /\ ss.txIns
                            THEN accepted \cup {ss.req.idempotency_key}
                            ELSE accepted
  /\ sess' = [sess EXCEPT ![s] = IdleSession]
  /\ UNCHANGED <<accId, opsLeft, freezeLeft>>

\* session.rollback() / close() of a caller in the style of get_db, which lets
\* the exception pass: the unit of work is discarded
Rollback(s) ==
  /\ sess[s].pc = "failed"
  /\ trail' = TrailAfter(sess[s], FALSE)
  /\ sess' = [sess EXCEPT ![s] = IdleSession]
  /\ UNCHANGED <<db, opsLeft, freezeLeft, accepted>>

Freezable == {"H"}

\* an operator freezes an account (is_frozen is set from outside the core)
FreezeAccount(a) ==
  /\ freezeLeft > 0
  /\ ledger_accounts[a].exists
  /\ ~ledger_accounts[a].is_frozen
  /\ \A t \in Sessions : a \notin sess[t].locks
  /\ freezeLeft' = freezeLeft - 1
  /\ ledger_accounts' = [ledger_accounts EXCEPT ![a].is_frozen = TRUE]
  /\ UNCHANGED <<ledger_transactions, ledger_entries, orders, risk_decision_logs,
                 accId, sess, opsLeft, trail, accepted>>

Next ==
  \/ \E s \in Sessions, o \in Orders, x \in RiskInputs : BeginHold(s, o, x[1], x[2])
  \/ \E s \in Sessions, o \in Orders : BeginCapture(s, o)
  \/ \E s \in Sessions, o \in Orders : BeginVoid(s, o)
  \/ \E s \in Sessions, r \in Requests : BeginPost(s, r)
  \/ \E s \in Sessions : GocSelect(s)
  \/ \E s \in Sessions : GocInsert(s)
  \/ \E s \in Sessions : StartPost(s)
  \/ \E s \in Sessions : InsertTx(s)
  \/ \E s \in Sessions : LockApply(s)
  \/ \E s \in Sessions : Commit(s)
  \/ \E s \in Sessions : Rollback(s)
  \/ \E a \in Freezable : FreezeAccount(a)

Spec == Init /\ [][Next]_vars

\* the same requests issued one after another: a request begins when no other
\* request is in flight
NoneInFlight == \A t \in Sessions : sess[t].pc = "idle"

NextSeq ==
  \/ \E s \in Sessions, o \in Orders, x \in RiskInputs :
        NoneInFlight /\ BeginHold(s, o, x[1], x[2])
  \/ \E s \in Sessions, o \in Orders : NoneInFlight /\ BeginCapture(s, o)
  \/ \E s \in Sessions, o \in Orders : NoneInFlight /\ BeginVoid(s, o)
  \/ \E s \in Sessions, r \in Requests : NoneInFlight /\ BeginPost(s, r)
  \/ \E s \in Sessions : GocSelect(s)
  \/ \E s \in Sessions : GocInsert(s)
  \/ \E s \in Sessions : StartPost(s)
  \/ \E s \in Sessions : InsertTx(s)
  \/ \E s \in Sessions : LockApply(s)
  \/ \E s \in Sessions : Commit(s)
  \/ \E s \in Sessions : Rollback(s)
  \/ \E a \in Freezable : FreezeAccount(a)

SpecSeq == Init /\ [][NextSeq]_vars

\* requests one after another on a storage layer that may reject an audit row
NextAudit ==
  \/ \E s \in Sessions, o \in Orders, x \in RiskInputs :
        NoneInFlight /\ BeginHold(s, o, x[1], x[2])
  \/ \E s \in Sessions, o \in Orders : NoneInFlight /\ BeginCapture(s, o)
  \/ \E s \in Sessions, o \in Orders : NoneInFlight /\ BeginVoid(s, o)
  \/ \E s \in Sessions : AuditWriteFails(s)
  \/ \E s \in Sessions : GocSelect(s)
  \/ \E s \in Sessions : GocInsert(s)
  \/ \E s \in Sessions : StartPost(s)
  \/ \E s \in Sessions : InsertTx(s)
  \/ \E s \in Sessions : LockApply(s)
  \/ \E s \in Sessions : Commit(s)
  \/ \E s \in Sessions : Rollback(s)

SpecAudit == Init /\ [][NextAudit]_vars

\* the risk gate by itself: evaluations, each committed by its caller
NextRisk ==
  \/ \E s \in Sessions, amount \in RiskAmounts, velocity \in RiskVelocities, x \in RiskSuppliers :
        EvaluateTransaction(s, amount, velocity, x[1], x[2])
  \/ \E s \in Sessions : Commit(s)

SpecRisk == Init /\ [][NextRisk]_vars

\* requests that callers hand to post_transaction on accounts of every type, in
\* both directions, and requests that pass the checks of the totals although
\* one of their entries is not a positive DEBIT or CREDIT
LedgerRequests ==
  { [idempotency_key |-> <<"key", "l1">>,
     entries |-> <<EntryRequest("V", 100 * Scale, "DEBIT"), EntryRequest("C", 100 * Scale, "CREDIT")>>],
    [idempotency_key |-> <<"key", "l2">>,
     entries |-> <<EntryRequest("C", 40 * Scale, "DEBIT"), EntryRequest("V", 40 * Scale, "CREDIT")>>],
    [idempotency_key |-> <<"key", "l3">>,
     entries |-> <<EntryRequest("H", 30 * Scale, "DEBIT"), EntryRequest("P", 30 * Scale, "CREDIT")>>],
    [idempotency_key |-> <<"key", "l4">>,
     entries |-> <<EntryRequest("P", 20 * Scale, "DEBIT"), EntryRequest("H", 20 * Scale, "CREDIT")>>],
    [idempotency_key |-> <<"key", "l5">>,
     entries |-> <<EntryRequest("R", 10 * Scale, "DEBIT"), EntryRequest("W", 10 * Scale, "CREDIT")>>],
    [idempotency_key |-> <<"key", "l6">>,
     entries |-> <<EntryRequest("W", 60 * Scale, "DEBIT"), EntryRequest("R", 60 * Scale, "CREDIT")>>],
    [idempotency_key |-> <<"key", "n1">>,
     entries |-> <<EntryRequest("W", 100 * Scale, "DEBIT"), EntryRequest("V", (-50) * Scale, "DEBIT"),
                   EntryRequest("R", 50 * Scale, "CREDIT")>>],
    [idempotency_key |-> <<"key", "n2">>,
     entries |-> <<EntryRequest("W", 70 * Scale, "DEBIT"), EntryRequest("H", 0, "DEBIT"),
                   EntryRequest("R", 70 * Scale, "CREDIT")>>],
    [idempotency_key |-> <<"key", "n3">>,
     entries |-> <<EntryRequest("W", 80 * Scale, "DEBIT"), EntryRequest("V", 20 * Scale, "REFUND"),
                   EntryRequest("R", 80 * Scale, "CREDIT")>>],
    [idempotency_key |-> <<"key", "z1">>,
     entries |-> <<EntryRequest("W", 0, "DEBIT"), EntryRequest("R", 0, "CREDIT")>>],
    [idempotency_key |-> <<"key", "z2">>,
     entries |-> <<EntryRequest("W", (-10) * Scale, "DEBIT"), EntryRequest("R", (-10) * Scale, "CREDIT")>>] }

\* order totals of two decimal places, in units of 1/10000
FeeTotals == {100, 4900, 5100, 999900, 3333300, 1000 * Scale}

LedgerOrders ==
  { [o1 |-> [status |-> "pending", total_amount |-> tot],
     o2 |-> [status |-> "draft", total_amount |-> 1000 * Scale]] : tot \in FeeTotals }

InitLedger == InitWith(LedgerOrders)

\* the ledger under requests issued one after another: direct posts on every
\* account type, and holds and captures of orders of many totals
NextLedger ==
  \/ \E s \in Sessions, o \in Orders : NoneInFlight /\ BeginHold(s, o, 0, NoScore)
  \/ \E s \in Sessions, o \in Orders : NoneInFlight /\ BeginCapture(s, o)
  \/ \E s \in Sessions, r \in LedgerRequests : NoneInFlight /\ BeginPost(s, r)
  \/ \E s \in Sessions : GocSelect(s)
  \/ \E s \in Sessions : GocInsert(s)
  \/ \E s \in Sessions : StartPost(s)
  \/ \E s \in Sessions : InsertTx(s)
  \/ \E s \in Sessions : LockApply(s)
  \/ \E s \in Sessions : Commit(s)
  \/ \E s \in Sessions : Rollback(s)

SpecLedger == InitLedger /\ [][NextLedger]_vars

\* the rows the committed hold of order o1 (DEBIT wallet, CREDIT hold) leaves
\* behind on the funded ledger
HoldEntries(rank) ==
  LET T == 500 * Scale
      es == SortedEntries(<<EntryRequest("W", T, "DEBIT"),
                            EntryRequest("H", T, "CREDIT")>>, rank)
  IN [k \in 1..2 |->
        [transaction_id |-> HoldKey("o1"), account_id |-> es[k].account_id,
         direction |-> es[k].direction, amount |-> es[k].amount,
         balance_after |-> IF es[k].account_id = "W" THEN DepositAmount + T ELSE T]]

\* the committed state once the wallet is funded and place_order_hold has
\* reserved the total of order o1: what a sequence deposit, hold leaves behind
HeldState ==
  /\ accId \in Ranks
  /\ ledger_accounts =
       [a \in Accounts |->
          CASE a = "W" -> [exists |-> TRUE, balance |-> DepositAmount + 500 * Scale,
                           is_frozen |-> FALSE]
            [] a = "H" -> [exists |-> TRUE, balance |-> 500 * Scale, is_frozen |-> FALSE]
            [] a = "R" -> [exists |-> TRUE, balance |-> DepositAmount, is_frozen |-> FALSE]
            [] OTHER -> NoRow]
  /\ ledger_transactions = <<DepositKey, HoldKey("o1")>>
  /\ ledger_entries = DepositEntries(accId) \o HoldEntries(accId)
  /\ orders = [o1 |-> [status |-> ORDER_STATUS_FUNDS_HELD, total_amount |-> 500 * Scale],
               o2 |-> [status |-> "pending", total_amount |-> 1000 * Scale]]
  /\ risk_decision_logs =
       <<[amount |-> 500 * Scale, score |-> 10, decision |-> "APPROVE",
          velocity_1h |-> 0, supplier_score |-> NoScore]>>
  /\ trail = [NoTrail EXCEPT !.op = "hold", !.order = "o1", !.committed = TRUE,
                             !.pc = "ok", !.posted = TRUE, !.seen = "pending",
                             !.before = [a \in Accounts |->
                                           IF a \in {"W", "R"} THEN DepositAmount ELSE 0],
                             !.txsBefore = 1, !.entriesBefore = 2,
                             !.statusBefore = "pending"]
  /\ accepted = {DepositKey, HoldKey("o1")}

InitHeld ==
  /\ HeldState
  /\ sess = [s \in Sessions |-> IdleSession]
  /\ opsLeft = MaxOps
  /\ freezeLeft = MaxFreeze

\* captures and voids, in any interleaving, once the funds of order o1 are held
NextHeld ==
  \/ \E s \in Sessions, o \in Orders : BeginCapture(s, o)
  \/ \E s \in Sessions, o \in Orders : BeginVoid(s, o)
  \/ \E s \in Sessions : GocSelect(s)
  \/ \E s \in Sessions : GocInsert(s)
  \/ \E s \in Sessions : StartPost(s)
  \/ \E s \in Sessions : InsertTx(s)
  \/ \E s \in Sessions : LockApply(s)
  \/ \E s \in Sessions : Commit(s)
  \/ \E s \in Sessions : Rollback(s)

SpecHeld == InitHeld /\ [][NextHeld]_vars

\* the steps of the request that session s runs
SessionStep(s) ==
  \/ GocSelect(s) \/ GocInsert(s) \/ StartPost(s) \/ InsertTx(s) \/ LockApply(s)
  \/ Commit(s) \/ Rollback(s)

\* the requests of Requests that post_transaction accepts
ValidRequests == {r \in Requests : ValidationError(r) = "none"}

\* concurrent requests on orders that are ready for their hold, with unremarkable
\* risk inputs and no operator at work
InitFair ==
  /\ Init
  /\ \A o \in Orders : orders[o].status = "pending"
  /\ orders["o2"].total_amount <= MAX_AUTO_APPROVE_AMOUNT

NextFair ==
  \/ \E s \in Sessions, o \in Orders : BeginHold(s, o, 0, NoScore)
  \/ \E s \in Sessions, o \in Orders : BeginCapture(s, o)
  \/ \E s \in Sessions, o \in Orders : BeginVoid(s, o)
  \/ \E s \in Sessions, r \in ValidRequests : BeginPost(s, r)
  \/ \E s \in Sessions : GocSelect(s)
  \/ \E s \in Sessions : GocInsert(s)
  \/ \E s \in Sessions : StartPost(s)
  \/ \E s \in Sessions : InsertTx(s)
  \/ \E s \in Sessions : LockApply(s)
  \/ \E s \in Sessions : Commit(s)
  \/ \E s \in Sessions : Rollback(s)

\* under a fair scheduler: a request that can take its next step (its database
\* round trip is not waiting for a lock) eventually takes it
SpecFair == InitFair /\ [][NextFair]_vars /\ \A s \in Sessions : WF_vars(SessionStep(s))

TypeOK ==
  /\ \A a \in Accounts : ledger_accounts[a].exists \in BOOLEAN
  /\ opsLeft \in 0..MaxOps

\* ------------------------------------------------------------------ claims
RECURSIVE SumDeltas(_, _)
\* the sum of the signed balance changes of the entries es on account a
SumDeltas(es, a) ==
  IF es = <<>> THEN 0
  ELSE (IF Head(es).account_id = a
        THEN balance_change(account_type(a), Head(es).direction, Head(es).amount)
        ELSE 0)
       + SumDeltas(Tail(es), a)

EntriesOf(key) == SelectSeq(ledger_entries, LAMBDA e : e.transaction_id = key)

KeyCount(key) == Cardinality({k \in 1..Len(ledger_transactions) : ledger_transactions[k] = key})

NothingWritten(ss) ==
  ~ss.txIns /\ ss.pend = <<>> /\ ss.dirty = {} /\ ss.newStatus = "none"

\* C1: no lost updates: the committed balance of every account (accounts start
\* at 0) equals the sum of the signed deltas of the committed entries on it,
\* whatever the interleaving of the postings.
C1_NoLostUpdates ==
  \A a \in Accounts : ledger_accounts[a].balance = SumDeltas(ledger_entries, a)

\* C2: atomic posting: once the caller has handled a failed call, nothing of the
\* call is persisted: no transaction record, no entry, and every balance is what
\* it was before.
C2_AtomicPosting ==
  trail.pc = "failed" =>
    /\ Len(ledger_transactions) = trail.txsBefore
    /\ Len(ledger_entries) = trail.entriesBefore
    /\ Balances(ledger_accounts) = trail.before

\* C3: double entry: a request that post_transaction accepts, and every
\* transaction committed from an accepted request, has equal DEBIT and CREDIT
\* totals; a request with different totals is rejected as unbalanced with no
\* transaction record, entry or balance change made.
C3_DoubleEntry ==
  /\ \A s \in Sessions :
       /\ sess[s].pc \in {"insert", "lock", "ok"} /\ sess[s].req # NoRequest =>
            SumAmounts(sess[s].req.entries, "DEBIT") = SumAmounts(sess[s].req.entries, "CREDIT")
       /\ sess[s].pc = "ok" /\ sess[s].txIns =>
            SumAmounts(sess[s].pend, "DEBIT") = SumAmounts(sess[s].pend, "CREDIT")
       /\ sess[s].pc = "failed" /\ sess[s].req # NoRequest
            /\ sess[s].err \notin {"replay", "integrity_account"}
            /\ SumAmounts(sess[s].req.entries, "DEBIT") # SumAmounts(sess[s].req.entries, "CREDIT") =>
            sess[s].err = "unbalanced" /\ NothingWritten(sess[s])
  /\ \A key \in accepted :
       SumAmounts(EntriesOf(key), "DEBIT") = SumAmounts(EntriesOf(key), "CREDIT")

C3_Witness ==
  /\ \E s \in Sessions : sess[s].err = "unbalanced"
  /\ \E key \in accepted : key # DepositKey /\ SumAmounts(EntriesOf(key), "DEBIT") > 0

\* the step in which session s runs the checks of post_transaction
ValidationStep(s) ==
  /\ sess[s].pc = "goc"
  /\ sess[s].need = <<>>
  /\ sess'[s].pc # "goc"
  /\ ~InsufficientFunds(sess[s])

\* C4: sequential replay: a post_transaction whose key is already committed
\* fails with the replay error and has written nothing, and no key ever has
\* more than one committed transaction.
C4_SequentialReplay ==
  /\ [][\A s \in Sessions :
          ValidationStep(s) /\ KeyExists(BuildRequest(sess[s]).idempotency_key) =>
            sess'[s].pc = "failed" /\ sess'[s].err = "replay" /\ NothingWritten(sess'[s])]_vars
  /\ [](\A k \in 1..Len(ledger_transactions) : KeyCount(ledger_transactions[k]) = 1)

C4_Witness ==
  \E s \in Sessions :
    sess[s].err = "replay" /\ sess[s].req.idempotency_key \in accepted \ {DepositKey}

\* C5: concurrent replay: of two postings with one key, the one that loses is
\* rejected with the replay error, never with a generic failure.
C5_ConcurrentReplay ==
  \A s \in Sessions :
    sess[s].pc = "failed" /\ KeyExists(sess[s].req.idempotency_key)
      /\ sess[s].err \notin {"unbalanced", "not_positive", "integrity_account"} =>
      sess[s].err = "replay"

\* the last request that ended was operation op, it posted and was committed
LastPosted(op) ==
  trail.op = op /\ trail.pc = "ok" /\ trail.posted /\ trail.committed

LastTotal == orders[trail.order].total_amount

\* C6: hold effect: a hold that succeeds on a pending order with total T takes T
\* out of the wallet, adds T to the escrow-hold account and leaves the order in
\* funds_held.
C6_HoldEffect ==
  LastPosted("hold") =>
    /\ ledger_accounts["W"].balance = trail.before["W"] - LastTotal
    /\ ledger_accounts["H"].balance = trail.before["H"] + LastTotal
    /\ orders[trail.order].status = ORDER_STATUS_FUNDS_HELD

\* C7: capture effect: a capture that succeeds on a held order with total T
\* takes T out of the escrow-hold account, adds 98% of T to the supplier's
\* payable account and 2% of T to the revenue account, and leaves the order
\* completed.
C7_CaptureEffect ==
  LastPosted("capture") /\ trail.seen \in {ORDER_STATUS_FUNDS_HELD, ORDER_STATUS_SHIPPED} =>
    /\ ledger_accounts["H"].balance = trail.before["H"] - LastTotal
    /\ 100 * (ledger_accounts["P"].balance - trail.before["P"]) = 98 * LastTotal
    /\ 100 * (ledger_accounts["R"].balance - trail.before["R"]) = 2 * LastTotal
    /\ orders[trail.order].status = ORDER_STATUS_COMPLETED

C7_Witness ==
  /\ LastPosted("capture")
  /\ trail.seen = ORDER_STATUS_FUNDS_HELD
  /\ LastTotal = 500 * Scale
  /\ ledger_accounts["H"].balance = 0
  /\ ledger_accounts["P"].balance = 490 * Scale

\* C8: void round trip: a hold that is followed by the void of the same order
\* leaves the wallet and the escrow-hold account at their values before the
\* hold, and the order cancelled.
C8_VoidRoundTrip ==
  LastPosted("void") /\ trail.prevOp = "hold" /\ trail.prevOrder = trail.order
      /\ trail.prevPc = "ok" /\ trail.prevPosted =>
    /\ ledger_accounts["W"].balance = trail.prevBefore["W"]
    /\ ledger_accounts["H"].balance = trail.prevBefore["H"]
    /\ orders[trail.order].status = ORDER_STATUS_CANCELLED

C8_Witness ==
  /\ LastPosted("void") /\ trail.prevOp = "hold" /\ trail.prevOrder = trail.order
  /\ trail.prevPc = "ok" /\ trail.prevPosted
  /\ trail.before["H"] = LastTotal
  /\ orders[trail.order].status = ORDER_STATUS_CANCELLED

\* C9: fail-closed risk gate: a hold whose risk decision is BLOCK or REVIEW
\* fails as not authorized with its score, has written nothing to the ledger or
\* the order, and once its caller has handled it the order is still pending and
\* no transaction or balance has changed; a hold posts only after APPROVE.
C9_RiskGateFailClosed ==
  /\ \A s \in Sessions :
       /\ sess[s].op = "hold" /\ sess[s].decision \in {"BLOCK", "REVIEW"} =>
            /\ sess[s].pc = "failed" /\ sess[s].err = "not_authorized"
            /\ sess[s].score >= 50
            /\ NothingWritten(sess[s])
       /\ sess[s].op = "hold" /\ (sess[s].txIns \/ sess[s].pend # <<>>) =>
            sess[s].decision = "APPROVE"
  /\ trail.op = "hold" /\ trail.err = "not_authorized" =>
       /\ trail.seen = "pending"
       /\ orders[trail.order].status = trail.statusBefore
       /\ Len(ledger_transactions) = trail.txsBefore
       /\ Len(ledger_entries) = trail.entriesBefore
       /\ Balances(ledger_accounts) = trail.before

C9_Witness ==
  /\ trail.op = "hold" /\ trail.err = "not_authorized" /\ trail.committed
  /\ orders[trail.order].status = "pending"
  /\ orders[trail.order].total_amount = 60000 * Scale
  /\ \E k \in 1..Len(risk_decision_logs) : risk_decision_logs[k].decision = "REVIEW"

\* C10: capture state guard: a capture of an order that is neither funds_held
\* nor shipped is rejected as an invalid state transition and writes nothing.
C10_CaptureStateGuard ==
  \A s \in Sessions :
    sess[s].op = "capture"
      /\ sess[s].seen \notin {ORDER_STATUS_FUNDS_HELD, ORDER_STATUS_SHIPPED} =>
      sess[s].pc = "failed" /\ sess[s].err = "invalid_state" /\ NothingWritten(sess[s])

WalletEntries(key) ==
  Cardinality({k \in 1..Len(ledger_entries) :
                 ledger_entries[k].transaction_id = key /\ ledger_entries[k].account_id = "W"})

AllowedMove(from, to) ==
  \/ from = "pending" /\ to = ORDER_STATUS_FUNDS_HELD
  \/ from \in {ORDER_STATUS_FUNDS_HELD, ORDER_STATUS_SHIPPED} /\ to = ORDER_STATUS_COMPLETED
  \/ from = ORDER_STATUS_FUNDS_HELD /\ to = ORDER_STATUS_CANCELLED

\* C12: order status machine: the committed status of an order changes only
\* along pending -> funds_held, funds_held or shipped -> completed and
\* funds_held -> cancelled (so completed and cancelled are terminal), and a void
\* of an order that is not in funds_held is rejected and writes nothing.
C12_StatusMachine ==
  /\ [][\A o \in Orders :
          orders'[o].status # orders[o].status =>
            AllowedMove(orders[o].status, orders'[o].status)]_vars
  /\ [](\A s \in Sessions :
          sess[s].op = "void" /\ sess[s].seen # ORDER_STATUS_FUNDS_HELD =>
            sess[s].pc = "failed" /\ sess[s].err = "invalid_state" /\ NothingWritten(sess[s]))

\* C13: status gated by posting: an order in funds_held has a committed hold
\* transaction, an order in completed a committed hold and a committed capture
\* transaction, an order in cancelled a committed hold and a committed void
\* transaction.
C13_StatusGatedByPosting ==
  \A o \in Orders :
    /\ orders[o].status = ORDER_STATUS_FUNDS_HELD => KeyExists(HoldKey(o))
    /\ orders[o].status = ORDER_STATUS_COMPLETED =>
         KeyExists(HoldKey(o)) /\ KeyExists(CaptureKey(o))
    /\ orders[o].status = ORDER_STATUS_CANCELLED =>
         KeyExists(HoldKey(o)) /\ KeyExists(VoidKey(o))

\* session s waits for something session t holds: an uncommitted account row of
\* the identity s inserts, an uncommitted transaction row with the key s
\* inserts, or the row lock of the account s locks next
WaitsFor(s, t) ==
  \/ sess[s].pc = "goc_insert" /\ Head(sess[s].need) \in sess[t].created
  \/ sess[s].pc = "insert" /\ sess[t].txIns
       /\ sess[t].req.idempotency_key = sess[s].req.idempotency_key
  \/ sess[s].pc = "lock" /\ sess[s].sorted[sess[s].i].account_id \in sess[t].locks

AscendingLockOrder(s) ==
  \A k \in 1..(Len(sess[s].sorted) - 1) :
    accId[sess[s].sorted[k].account_id] <= accId[sess[s].sorted[k + 1].account_id]

\* C14: deadlock freedom by lock order: every posting takes its account row
\* locks in ascending account id order, no two requests ever wait for each
\* other, and under fair scheduling every request that began ends (its session
\* is committed or rolled back).
C14_DeadlockFreedom ==
  /\ [](\A s \in Sessions : AscendingLockOrder(s))
  /\ [](\A s, t \in Sessions : ~(s # t /\ WaitsFor(s, t) /\ WaitsFor(t, s)))
  /\ \A s \in Sessions : (sess[s].pc # "idle") ~> (sess[s].pc = "idle")

\* two postings over the same two accounts, one waiting for the row lock of the other
C14_Witness ==
  \E s, t \in Sessions :
    /\ s # t /\ WaitsFor(s, t) /\ sess[s].pc = "lock" /\ sess[t].pc = "lock"
    /\ sess[s].req.entries # sess[t].req.entries
    /\ {e.account_id : e \in {sess[s].req.entries[k] : k \in 1..Len(sess[s].req.entries)}}
         = {e.account_id : e \in {sess[t].req.entries[k] : k \in 1..Len(sess[t].req.entries)}}

\* C15: race-safe account creation: of two concurrent get_or_create_account
\* calls for one identity that has no row, neither gets an error: the call
\* that loses the race goes on with the row the other one created.
C15_RaceSafeCreation ==
  \A s \in Sessions :
    ~(sess[s].pc = "failed" /\ sess[s].err = "integrity_account")

\* the inputs of the evaluation that session s made, as its audit row holds them
Evaluated(s) == sess[s].op = "evaluate" /\ sess[s].logs # <<>>

\* C16: risk decision mapping: the decision is BLOCK exactly when the score is
\* at least 80, otherwise REVIEW exactly when the score is at least 50 or the
\* amount is over 50,000, otherwise APPROVE; no amount over the ceiling is
\* approved and 60,000 with no other finding yields REVIEW.
C16_DecisionMapping ==
  \A s \in Sessions :
    Evaluated(s) =>
      LET amount == sess[s].logs[1].amount
          score == sess[s].score
          decision == sess[s].decision
      IN /\ decision \in {"BLOCK", "REVIEW", "APPROVE"}
         /\ decision = "BLOCK" <=> score >= 80
         /\ decision = "REVIEW" <=> score < 80 /\ (score >= 50 \/ amount > 50000 * Scale)
         /\ amount > 50000 * Scale => decision # "APPROVE"
         /\ amount = 60000 * Scale /\ Len(sess[s].reasons) = 1 =>
              decision = "REVIEW" /\ score = 50

C16_Witness ==
  \E s, t \in Sessions :
    /\ Evaluated(s) /\ sess[s].decision = "BLOCK" /\ sess[s].score = 80
    /\ Evaluated(t) /\ sess[t].decision = "REVIEW" /\ sess[t].score = 50
         /\ sess[t].logs[1].amount = 60000 * Scale

\* C17: risk score formula: score = 10 + 40 if amount > 50,000 + 50 if more
\* than 10 orders in the last hour + 30 if a reliability score exists and is
\* below 0.3, with one reason per rule that fired; exactly 50,000, exactly 10
\* orders, a missing supplier or a missing score add nothing.
C17_ScoreFormula ==
  \A s \in Sessions :
    Evaluated(s) =>
      LET in == sess[s].logs[1]
          high == in.amount > 50000 * Scale
          fast == in.velocity_1h > 10
          poor == in.supplier_score # NoScore /\ in.supplier_score < 300
          fired == {r \in {"High Value Transaction", "High Velocity", "Low Supplier Reliability"} :
                      \/ r = "High Value Transaction" /\ high
                      \/ r = "High Velocity" /\ fast
                      \/ r = "Low Supplier Reliability" /\ poor}
      IN /\ sess[s].score = 10 + (IF high THEN 40 ELSE 0) + (IF fast THEN 50 ELSE 0)
                                + (IF poor THEN 30 ELSE 0)
         /\ Len(sess[s].reasons) = Cardinality(fired)
         /\ {sess[s].reasons[k] : k \in 1..Len(sess[s].reasons)} = fired
         /\ in.score = sess[s].score

C17_Witness ==
  \E s, t \in Sessions :
    /\ Evaluated(s) /\ sess[s].logs[1].amount = 50000 * Scale
         /\ sess[s].logs[1].velocity_1h = 10 /\ sess[s].logs[1].supplier_score = 300
         /\ sess[s].score = 10 /\ sess[s].reasons = <<>>
    /\ Evaluated(t) /\ sess[t].score = 130 /\ Len(sess[t].reasons) = 3

\* C18: audit on every evaluation: every request that called the risk gate
\* leaves exactly one more committed audit row when it ends, also when the hold
\* was refused and whichever way its caller ends the unit of work.
C18_AuditEveryEvaluation ==
  [][\A s \in Sessions :
       sess[s].decision # "none" /\ sess[s].pc # "idle" /\ sess'[s].pc = "idle" =>
         Len(risk_decision_logs') = Len(risk_decision_logs) + 1]_vars

\* C19: audit failure isolation: a failing write of the audit row never fails
\* the financial operation: an approved hold does not end with the error of
\* the audit write.
C19_AuditFailureIsolation ==
  \A s \in Sessions :
    sess[s].op = "hold" /\ sess[s].decision = "APPROVE" =>
      ~(sess[s].pc = "failed" /\ sess[s].err = "audit_write")

\* the step in which session s runs the balance check of place_order_hold
HoldCheckStep(s) ==
  /\ sess[s].op = "hold"
  /\ sess[s].pc = "goc"
  /\ sess[s].need = <<>>
  /\ sess'[s].pc # "goc"

\* C20: insufficient funds: a hold on a pending, approved order whose total is
\* greater than the wallet balance it read fails with the insufficient-funds
\* error and has written nothing; handled by its caller, it leaves the
\* transactions, entries, balances and the order status as they were; a total
\* equal to the balance passes the check.
C20_InsufficientFunds ==
  /\ [][\A s \in Sessions :
          HoldCheckStep(s) =>
            IF sess[s].cache["W"].balance < orders[sess[s].order].total_amount
            THEN /\ sess'[s].pc = "failed" /\ sess'[s].err = "insufficient_funds"
                 /\ NothingWritten(sess'[s])
            ELSE sess'[s].err # "insufficient_funds"]_vars
  /\ [](trail.op = "hold" /\ trail.err = "insufficient_funds" =>
          /\ trail.seen = "pending"
          /\ orders[trail.order].status = trail.statusBefore
          /\ Len(ledger_transactions) = trail.txsBefore
          /\ Len(ledger_entries) = trail.entriesBefore
          /\ Balances(ledger_accounts) = trail.before)

C20_Witness ==
  /\ trail.op = "hold" /\ trail.err = "insufficient_funds" /\ trail.committed
  /\ orders[trail.order].status = "pending"
  /\ ledger_accounts["W"].exists
  /\ ledger_accounts["W"].balance < orders[trail.order].total_amount

\* session s applies one entry in this step: a turn of the loop of post_transaction
EntryStep(s) ==
  /\ sess[s].pc = "lock"
  /\ Len(sess'[s].pend) = Len(sess[s].pend) + 1

\* in a step in which session s applies a DEBIT or CREDIT entry, the balance of
\* the account changes by +amount when the account is of one of the types
\* debitTypes and the direction is DEBIT, or of another type and the direction is
\* CREDIT, and by -amount otherwise
SignConvention(s, debitTypes) ==
  EntryStep(s) =>
    LET e == sess'[s].pend[Len(sess'[s].pend)]
        a == e.account_id
        change == sess'[s].cache[a].balance - LockedRow(sess[s], a).balance
        up == (account_type(a) \in debitTypes) <=> (e.direction = "DEBIT")
    IN e.direction \in {"DEBIT", "CREDIT"} =>
         /\ e.balance_after = sess'[s].cache[a].balance
         /\ change = IF up THEN e.amount ELSE -e.amount

\* C21 as stated: wallet, receivable and escrow-hold accounts increase on
\* DEBIT; payable, revenue and credit-line accounts increase on CREDIT
C21_SignConvention_Stated ==
  [][\A s \in Sessions : SignConvention(s, {"WALLET", "RECEIVABLE", "HOLD"})]_vars

\* C21, amended: for every DEBIT or CREDIT entry, post_transaction changes the
\* account balance by +amount when the account is a wallet or a receivable and
\* the direction is DEBIT, or when it is a payable, a revenue, a credit-line or
\* the escrow-hold account and the direction is CREDIT, and by -amount in the
\* opposite cases
C21_SignConvention ==
  [][\A s \in Sessions : SignConvention(s, {"WALLET", "RECEIVABLE"})]_vars

\* a committed CREDIT entry on the escrow-hold account raised its balance from
\* zero, and entries on a receivable and on a credit line are committed as well
C21_Witness ==
  /\ \E k \in 1..Len(ledger_entries) :
        LET e == ledger_entries[k]
        IN /\ e.account_id = "H" /\ e.direction = "CREDIT"
           /\ e.amount > 0 /\ e.balance_after = e.amount
           /\ ledger_accounts["H"].balance = e.amount
  /\ \E k \in 1..Len(ledger_entries) : ledger_entries[k].account_id = "V"
  /\ \E k \in 1..Len(ledger_entries) : ledger_entries[k].account_id = "C"

\* a request with an entry that is not a positive DEBIT or CREDIT, or whose
\* total is not strictly positive
BadRequest(r) ==
  \/ \E k \in 1..Len(r.entries) : EntryRejected(r.entries[k])
  \/ SumAmounts(r.entries, "DEBIT") <= 0

\* the request of session s ends in this step
RequestEnds(s) == sess[s].pc # "idle" /\ sess'[s].pc = "idle"

\* C22: every persisted entry has amount > 0 and direction DEBIT or CREDIT; a
\* request with a zero or negative entry amount, an entry of another direction
\* or a total that is not strictly positive ends rejected, and leaves no
\* transaction record, entry or balance change (nor any other write) behind
C22_StrictlyPositiveEntries ==
  /\ [](\A k \in 1..Len(ledger_entries) :
          /\ ledger_entries[k].amount > 0
          /\ ledger_entries[k].direction \in {"DEBIT", "CREDIT"})
  /\ [][\A s \in Sessions :
          (RequestEnds(s) /\ sess[s].op = "post" /\ BadRequest(sess[s].req)) =>
             /\ UNCHANGED <<ledger_accounts, ledger_transactions, ledger_entries>>
             /\ trail'.pc = "failed" /\ ~trail'.committed
             /\ trail'.err \in {"integrity_entry", "not_positive"}]_vars

\* a request that passed the checks of the totals was rejected by the storage
\* layer for one of its entries, and nothing of it is in the ledger
C22_Witness ==
  /\ trail.op = "post" /\ trail.err = "integrity_entry" /\ ~trail.committed
  /\ Len(ledger_transactions) = trail.txsBefore
  /\ Len(ledger_entries) = trail.entriesBefore
  /\ Balances(ledger_accounts) = trail.before

RECURSIVE SnapshotChain(_, _, _)
\* the entries es on account a, in commit order, continue the balance running:
\* each balance_after is the balance before plus the signed delta of the entry,
\* and the last one is the stored balance of the account
SnapshotChain(es, a, running) ==
  IF es = <<>> THEN running = ledger_accounts[a].balance
  ELSE IF Head(es).account_id # a THEN SnapshotChain(Tail(es), a, running)
  ELSE LET after == running + balance_change(account_type(a), Head(es).direction,
                                             Head(es).amount)
       IN /\ Head(es).balance_after = after
          /\ SnapshotChain(Tail(es), a, after)

\* C23: per account and in commit order, each committed entry's balance_after is
\* the previous entry's balance_after plus this entry's signed delta, and the
\* latest balance_after is the stored balance of the account
C23_BalanceAfterSnapshot ==
  \A a \in Accounts : SnapshotChain(ledger_entries, a, 0)

\* the sequence old is kept, element by element, at the front of new
KeptIn(old, new) ==
  /\ Len(old) <= Len(new)
  /\ \A k \in 1..Len(old) : new[k] = old[k]

\* C24: in every step the committed transactions and entries only grow, none
\* of them is modified or deleted, and no account is deleted; a void adds a
\* transaction and leaves the hold transaction and its entries as they were
C24_AppendOnly ==
  [][/\ KeptIn(ledger_transactions, ledger_transactions')
     /\ KeptIn(ledger_entries, ledger_entries')
     /\ \A a \in Accounts : ledger_accounts[a].exists => ledger_accounts'[a].exists]_vars

\* a void is committed, and the hold it reverses is still there with both entries
C24_Witness ==
  \E o \in Orders :
    /\ VoidKey(o) \in accepted /\ KeyExists(VoidKey(o))
    /\ Len(EntriesOf(VoidKey(o))) = 2
    /\ KeyExists(HoldKey(o))
    /\ Len(EntriesOf(HoldKey(o))) = 2

\* C25: the request a capture builds for an order of total T debits the hold
\* account by T and credits the payable by exactly 98% and the revenue by
\* exactly 2% of T, the two credits adding up to T; no capture fails the checks
\* of the totals
C25_FeeSplitBalanced ==
  \A s \in Sessions :
    sess[s].op = "capture" =>
      /\ sess[s].err \notin {"unbalanced", "not_positive"}
      /\ sess[s].req # NoRequest =>
           LET T == orders[sess[s].order].total_amount
               es == sess[s].req.entries
           IN /\ Len(es) = 3
              /\ es[1] = EntryRequest("H", T, "DEBIT")
              /\ es[2].account_id = "P" /\ es[2].direction = "CREDIT"
              /\ es[3].account_id = "R" /\ es[3].direction = "CREDIT"
              /\ es[3].amount * 100 = FeePercent * T
              /\ es[2].amount * 100 = (100 - FeePercent) * T
              /\ es[2].amount + es[3].amount = T
              /\ SumAmounts(es, "DEBIT") = SumAmounts(es, "CREDIT")

\* after its hold, the capture of an order of 333.33 is committed with 326.6634 for the
\* supplier and 6.6666 for the platform
C25_Witness ==
  /\ orders["o1"].total_amount = 3333300
  /\ HoldKey("o1") \in accepted
  /\ CaptureKey("o1") \in accepted
  /\ \E k \in 1..Len(ledger_entries) :
        /\ ledger_entries[k].transaction_id = CaptureKey("o1")
        /\ ledger_entries[k].account_id = "P" /\ ledger_entries[k].amount = 3266634
  /\ \E k \in 1..Len(ledger_entries) :
        /\ ledger_entries[k].transaction_id = CaptureKey("o1")
        /\ ledger_entries[k].account_id = "R" /\ ledger_entries[k].amount = 66666

\* C26: for every order, at most one of the capture transaction and the void
\* transaction is ever committed
C26_NoDoubleRelease ==
  \A o \in Orders : ~(KeyExists(CaptureKey(o)) /\ KeyExists(VoidKey(o)))

\* the total of order o when its funds are held, and 0 otherwise
HeldTotal(o) ==
  IF orders[o].status \in {ORDER_STATUS_FUNDS_HELD, ORDER_STATUS_SHIPPED}
  THEN orders[o].total_amount ELSE 0

\* C27: in every committed state the balance of the escrow-hold account is the
\* sum of the totals of the orders in funds_held or shipped, and is not negative
C27_EscrowMatchesHeld ==
  /\ ledger_accounts["H"].balance = HeldTotal("o1") + HeldTotal("o2")
  /\ ledger_accounts["H"].balance >= 0

\* session s runs a hold that has passed the insufficient-funds check
PassedFundsCheck(s) ==
  sess[s].op = "hold" /\ sess[s].pc \in {"insert", "lock", "ok"}

\* C28: two holds for different orders that are in flight together have not
\* both passed the insufficient-funds check unless the committed wallet balance
\* covers both totals; and while only the deposit and holds have been posted,
\* the totals of the orders in funds_held do not exceed the deposited funds
C28_HoldsWithinWallet ==
  /\ \A s, t \in Sessions :
        (s # t /\ PassedFundsCheck(s) /\ PassedFundsCheck(t)
           /\ sess[s].order # sess[t].order) =>
          orders[sess[s].order].total_amount + orders[sess[t].order].total_amount
            <= ledger_accounts["W"].balance
  /\ (\A k \in 1..Len(ledger_transactions) :
         \/ ledger_transactions[k] = DepositKey
         \/ \E o \in Orders : ledger_transactions[k] = HoldKey(o)) =>
        HeldTotal("o1") + HeldTotal("o2")
          <= IF KeyExists(DepositKey) THEN DepositAmount ELSE 0

\* the accounts whose balance increases on DEBIT, and those that increase on CREDIT
DebitAccounts == {a \in Accounts : account_type(a) \in {"WALLET", "RECEIVABLE", "EXPENSE"}}
CreditAccounts == Accounts \ DebitAccounts

RECURSIVE SumBalances(_)
SumBalances(as) ==
  IF as = {} THEN 0
  ELSE LET a == CHOOSE x \in as : TRUE
       IN ledger_accounts[a].balance + SumBalances(as \ {a})

\* C29: while every committed transaction is a successful posting, the
\* balances of the accounts that increase on DEBIT add up to the same sum as
\* the balances of the accounts that increase on CREDIT
C29_AccountingEquation ==
  (\A k \in 1..Len(ledger_transactions) : ledger_transactions[k] \in accepted) =>
    SumBalances(DebitAccounts) = SumBalances(CreditAccounts)

\* C30: while an order is still pending its key hold_order_<id> is not
\* consumed, and no place_order_hold on a pending order fails with the replay
\* error
C30_FailedHoldRetryable ==
  /\ \A o \in Orders : orders[o].status = "pending" => ~KeyExists(HoldKey(o))
  /\ \A s \in Sessions :
        (sess[s].op = "hold" /\ sess[s].seen = "pending") => sess[s].err # "replay"
====
